---- MODULE Spec2Model ----
(***************************************************************************)
(* State-machine model of LIFT/training/train.py: train_one_epoch, called  *)
(* once per epoch with consecutive epoch numbers.  One action per          *)
(* iteration of the batch loop (one per branch the iteration can take),    *)
(* plus the entry and the return of train_one_epoch.                       *)
(*                                                                         *)
(* Tensors are sequences of rows; a row records the network that produced  *)
(* it, the output key, the batch it was computed from and whether it was   *)
(* computed with gradient tracking.  Calls made on the collaborators       *)
(* (scheduler, optimizer, scaler, loss, file system) are recorded in       *)
(* history variables in the order the code makes them.                     *)
(***************************************************************************)
EXTENDS Integers, Sequences, FiniteSets, TLC

\* ---------------------------------------------------------------- bounds
MaxBatches == 6
MaxAccum == 3
MaxEpochs == 2
MaxSaveEvery == 2
BatchSize == 2
MaxLogEvery == 2
MaxVal == 2
MaxN == 2
MaxCalls == 4

\* math.log(100) in units of 1/1000 (4.605)
Ln100 == 4605

VARIABLES
    args,            \* the configuration namespace
    scaler,          \* "None" or "GradScaler"
    model,           \* attributes of the model object and the keys it outputs
    num_batches,     \* dataloader.num_batches = number of batches it yields
    pc,              \* "idle" | "loop" | "returned" | "failed"
    epoch,           \* the epoch argument of the current / last call
    i,               \* index of the next batch of the for loop
    accum_images,
    accum_texts,
    accum_features,
    logit_scale,     \* value of the parameter unwrap_model(model).logit_scale
    unclamped,       \* value the last optimizer step left in the parameter
    trace,           \* calls made during the current accumulation window
    lossCalls,       \* loss(...) calls made by the last loop iteration
    optSteps,        \* global step value of every optimizer step of the run
    schedCalls,      \* argument of every scheduler(step) call of the run
    files,           \* completed_step of every existing step_<c>.pt
    fsLog,           \* torch.save / os.remove calls of the run, in order
    lastCkpt,        \* content of the checkpoint written last
    losses_m,        \* dict from loss name to its AverageMeter
    batch_time_m,
    data_time_m,
    elapsed,         \* time.time() - end at the top of the next iteration
    logs,            \* where every log record of the run was emitted
    lastLog,         \* the meters as the last log record read them
    fed,             \* what every iteration of this call fed to the meters
    grads,           \* the backward calls accumulated in the parameters' .grad
    flushed,         \* the accumulation buffers as line 172 last found them
    meter,           \* an AverageMeter driven directly by update / reset calls
    history          \* the update and reset calls made on meter, in order

vars == <<args, scaler, model, num_batches, pc, epoch, i, accum_images,
          accum_texts, accum_features, logit_scale, unclamped, trace,
          lossCalls, optSteps, schedCalls, files, fsLog, lastCkpt,
          losses_m, batch_time_m, data_time_m, elapsed, logs, lastLog, fed,
          grads, flushed, meter, history>>

config == <<args, scaler, model, num_batches>>

logVars == <<losses_m, batch_time_m, data_time_m, elapsed, logs, lastLog, fed>>

gradVars == <<grads, flushed>>

meterVars == <<meter, history>>

\* ------------------------------------------------------------- helpers
EmptyDict == [k \in {} |-> <<>>]

NoAccumKeys == {"logit_scale", "logit_bias"}

\* 'LIFT' in args.model; a model name is the sequence of its dash-separated parts
InModelName(part, name) == \E p \in 1..Len(name) : name[p] = part

\* hasattr(model, 'module') ? model.module : model
unwrap_model(m) == IF "module" \in DOMAIN m THEN m.module ELSE m

\* hasattr(unwrap_model(model), 'logit_scale')
HasLogitScale(m) == unwrap_model(m).has_logit_scale

\* Tensor.clamp_(0, math.log(100))
ClampNoLower(v) == IF v > Ln100 THEN Ln100 ELSE v

Clamp(v) == IF v < 0 THEN 0 ELSE IF v > Ln100 THEN Ln100 ELSE v

\* what during_training_data_preprocess returns for batch b of epoch e
Prepared(e, b) == [epoch |-> e, mb |-> b]

\* one output tensor of a forward pass: features have one row per sample,
\* logit_scale / logit_bias are scalars
Tensor(net, key, src, grad) ==
    [r \in 1..(IF key \in NoAccumKeys THEN 1 ELSE BatchSize) |->
        [net |-> net, key |-> key, epoch |-> src.epoch, mb |-> src.mb,
         row |-> r, grad |-> grad]]

\* model(images, texts): a dict from output key to tensor
Forward(src, grad) == [k \in model.out_keys |-> Tensor("model", k, src, grad)]

\* torch.cat of a list of tensors along the batch dimension
RECURSIVE Cat(_)
Cat(list) == IF list = <<>> THEN <<>> ELSE Head(list) \o Cat(Tail(list))

\* list[a:b] of Python, 0-based, half open
Slice(list, a, b) == SubSeq(list, a + 1, b)

\* ---------------------------------------------------------- AverageMeter
RECURSIVE Gcd(_, _)
Gcd(a, b) == IF b = 0 THEN a ELSE Gcd(b, a % b)

\* the number num / den, in lowest terms (Python's true division, exactly)
TrueDiv(num, den) ==
    LET g == Gcd(num, den) IN [num |-> num \div g, den |-> den \div g]

Zero == [num |-> 0, den |-> 1]

resetKeepsSum(m) == [val |-> 0, avg |-> Zero, sum |-> m.sum, count |-> 0]

\* AverageMeter.reset (and __init__, which calls it); m is the meter reset
reset(m) == [val |-> 0, avg |-> Zero, sum |-> 0, count |-> 0]

\* AverageMeter.update(val, n)
update(m, val, n) ==
    [val |-> val,
     sum |-> m.sum + val * n,
     count |-> m.count + n,
     avg |-> TrueDiv(m.sum + val * n, m.count + n)]

\* AverageMeter()
NewMeter == reset([val |-> 0, avg |-> Zero, sum |-> 0, count |-> 0])

\* ------------------------------------------------- per-iteration values
\* num_batches_per_epoch = dataloader.num_batches // args.accum_freq
num_batches_per_epoch == num_batches \div args.accum_freq

i_accum_ceil == (i + args.accum_freq - 1) \div args.accum_freq

\* i_accum = i // args.accum_freq
i_accum == i \div args.accum_freq

stepByLoaderLength == num_batches * epoch + i_accum

\* step = num_batches_per_epoch * epoch + i_accum
step == num_batches_per_epoch * epoch + i_accum

Ev(op, n) == <<op, n>>

\* top of the loop body: scheduler(step) unless skipped, preprocessing, zero_grad
IterHead ==
    (IF ~args.skip_scheduler THEN <<Ev("scheduler", step)>> ELSE <<>>)
    \o <<Ev("zero_grad", i)>>

SchedulerCallsEpochLocal == IF ~args.skip_scheduler THEN <<i_accum>> ELSE <<>>

\* if not args.skip_scheduler: scheduler(step)
SchedulerCalls == IF ~args.skip_scheduler THEN <<step>> ELSE <<>>

\* backward(total_loss, scaler)
backward(n) ==
    IF scaler # "None" THEN Ev("scaled_backward", n) ELSE Ev("backward", n)

\* dict.update: entries of d2 replace those of d1
Update(d1, d2) ==
    [k \in DOMAIN d1 \cup DOMAIN d2 |-> IF k \in DOMAIN d2 THEN d2[k] ELSE d1[k]]

\* {f'dist_{k}': v for k, v in dist_model(images, texts).items()}
DistOutputs(src) ==
    [k \in {"dist_image_features", "dist_text_features", "dist_logit_scale"} |->
        Tensor("dist_model", k, src, FALSE)]

\* ------------------------------------------------------- the loss call
RECURSIVE RowSum(_)
RowSum(t) == IF t = <<>> THEN 0 ELSE Head(t).mb + RowSum(Tail(t))

\* loss(**kwargs, output_dict=True): the caller's loss function, here one whose
\* components are fixed functions of its inputs; the distillation term exists
\* when the teacher's outputs were passed
Loss(kwargs) ==
    [name \in {"contrastive_loss"}
              \cup (IF "dist_image_features" \in DOMAIN kwargs
                        THEN {"distill_loss"} ELSE {}) |->
        IF name = "contrastive_loss" THEN 1 + RowSum(kwargs["image_features"])
        ELSE 2 + Len(kwargs["dist_image_features"])]

\* sum(d.values())
RECURSIVE SumValues(_)
SumValues(d) ==
    IF DOMAIN d = {} THEN 0
    ELSE LET k == CHOOSE x \in DOMAIN d : TRUE
         IN  d[k] + SumValues([x \in DOMAIN d \ {k} |-> d[x]])

TotalAfterInsert(losses) ==
    SumValues(Update(losses, [k \in {"loss"} |-> SumValues(losses)]))

\* total_loss = sum(losses.values())
TotalLoss(losses) == SumValues(losses)

\* one loss evaluation with what follows it: the returned dict, the total, the
\* dict after losses["loss"] = total_loss, and the argument of backward
LossCall(j, kwargs) ==
    LET returned == Loss(kwargs)
        total_loss == TotalLoss(returned)
    IN  [slot |-> j, kwargs |-> kwargs, returned |-> returned,
         total_loss |-> total_loss,
         losses |-> Update(returned, [k \in {"loss"} |-> total_loss]),
         backward |-> total_loss]

\* ------------------------------------------------------------ gradients
zero_grad_skipped(g) == g

\* optimizer.zero_grad(): g is the content of the parameters' .grad
zero_grad(g) == <<>>

\* the forward passes a loss value carries gradient back to: those that
\* produced a row of its inputs under gradient tracking
Through(kwargs) ==
    UNION { { <<kwargs[k][p].net, kwargs[k][p].epoch, kwargs[k][p].mb>> :
                p \in {q \in 1..Len(kwargs[k]) : kwargs[k][q].grad} } :
            k \in DOMAIN kwargs }

\* backward(total_loss, scaler) for each loss call of an iteration, in order:
\* every call adds its gradient to what .grad holds
Backward(g, calls, e, at) ==
    g \o [n \in 1..Len(calls) |->
            [epoch |-> e, i |-> at, slot |-> calls[n].slot,
             total_loss |-> calls[n].backward,
             through |-> Through(calls[n].kwargs)]]

\* ------------------------------------------------ non-accumulating path
\* keyword arguments of the loss call of the accum_freq == 1 branch
NoAccumKwargs(src) ==
    IF args.distill THEN Update(Forward(src, TRUE), DistOutputs(src))
    ELSE Forward(src, TRUE)

\* calls of the accum_freq == 1 branch, through the model-family clip
NoAccumTrace ==
    <<Ev("forward", i)>>
    \o (IF args.distill THEN <<Ev("dist_forward", i)>> ELSE <<>>)
    \o <<Ev("loss", i), backward(i)>>
    \o (IF InModelName("LIFT", args.model) THEN <<Ev("clip_lift", 1)>> ELSE <<>>)

\* ---------------------------------------------------- accumulating path
CacheFeaturesKeepAll(af, out) ==
    [k \in DOMAIN af \cup DOMAIN out |->
        IF k \notin DOMAIN out THEN af[k]
        ELSE IF k \in DOMAIN af THEN Append(af[k], out[k])
        ELSE <<out[k]>>]

\* Phase A: pop logit_scale / logit_bias, append every other output to its list
CacheFeatures(af, out) ==
    LET kept == DOMAIN out \ NoAccumKeys
    IN  [k \in DOMAIN af \cup kept |->
            IF k \notin kept THEN af[k]
            ELSE IF k \in DOMAIN af THEN Append(af[k], out[k])
            ELSE <<out[k]>>]

SubstituteShifted(af, out, j) ==
    [k \in DOMAIN af |->
        Cat(<<out[k]>> \o Slice(af[k], 0, j) \o Slice(af[k], j + 1, Len(af[k])))]

\* inputs[key] = cat(accumulated[:j] + [model_out[key]] + accumulated[j + 1:])
Substitute(af, out, j) ==
    [k \in DOMAIN af |->
        Cat(Slice(af[k], 0, j) \o <<out[k]>> \o Slice(af[k], j + 1, Len(af[k])))]

\* inputs_no_accum: logit_scale (required) and logit_bias (if present)
InputsNoAccum(out) == [k \in DOMAIN out \cap NoAccumKeys |-> out[k]]

PopRaisesOnMissingBias(out_keys) == "logit_bias" \notin out_keys

\* model_out.pop("logit_scale") of line 180 raises KeyError; logit_bias is
\* popped only if present (lines 181-182)
PopRaises(out_keys) == "logit_scale" \notin out_keys

\* the loss calls of Phase B, slot j = 0 .. accum_freq - 1
PhaseBCalls(imgs, af) ==
    [n \in 1..args.accum_freq |->
        LET j == n - 1
            out == Forward(imgs[n], TRUE)
        IN  LossCall(j, Update(Substitute(af, out, j), InputsNoAccum(out)))]

RECURSIVE PhaseBForwards(_)
PhaseBForwards(j) ==
    IF j >= args.accum_freq THEN <<>>
    ELSE <<Ev("forward", j)>> \o PhaseBForwards(j + 1)

RECURSIVE PhaseBTraceBatched(_)
PhaseBTraceBatched(j) ==
    IF j >= args.accum_freq THEN <<>>
    ELSE (IF j = 0 THEN PhaseBForwards(0) ELSE <<>>)
         \o <<Ev("loss", j), backward(j)>> \o PhaseBTraceBatched(j + 1)

\* for j in range(args.accum_freq): forward, loss, backward
RECURSIVE PhaseBTrace(_)
PhaseBTrace(j) ==
    IF j >= args.accum_freq THEN <<>>
    ELSE <<Ev("forward", j), Ev("loss", j), backward(j)>> \o PhaseBTrace(j + 1)

\* ------------------------------------- gradient finalization, lines 197-214
FinalizeUnscaleFirst ==
    IF scaler # "None" THEN
        (IF args.horovod THEN
            <<Ev("unscale", 0), Ev("synchronize", 0)>>
            \o (IF args.grad_clip_norm # "None" THEN <<Ev("clip", 0)>> ELSE <<>>)
            \o <<Ev("scaler_step", 1)>>
         ELSE
            (IF args.grad_clip_norm # "None"
                THEN <<Ev("unscale", 0), Ev("clip", 0)>> ELSE <<>>)
            \o <<Ev("scaler_step", 0)>>)
        \o <<Ev("scaler_update", 0)>>
    ELSE
        (IF args.grad_clip_norm # "None" THEN <<Ev("clip", 0)>> ELSE <<>>)
        \o <<Ev("optimizer_step", 0)>>

\* scaler_step's argument is 1 when the step runs inside skip_synchronize()
Finalize ==
    IF scaler # "None" THEN
        (IF args.horovod THEN
            <<Ev("synchronize", 0), Ev("unscale", 0)>>
            \o (IF args.grad_clip_norm # "None" THEN <<Ev("clip", 0)>> ELSE <<>>)
            \o <<Ev("scaler_step", 1)>>
         ELSE
            (IF args.grad_clip_norm # "None"
                THEN <<Ev("unscale", 0), Ev("clip", 0)>> ELSE <<>>)
            \o <<Ev("scaler_step", 0)>>)
        \o <<Ev("scaler_update", 0)>>
    ELSE
        (IF args.grad_clip_norm # "None" THEN <<Ev("clip", 0)>> ELSE <<>>)
        \o <<Ev("optimizer_step", 0)>>

\* values the optimizer may leave in logit_scale (scaler.step may skip the update)
Updates ==
    IF HasLogitScale(model) THEN {-700, 2659, 5000} \cup {logit_scale}
    ELSE {logit_scale}

\* --------------------------------------------- checkpointing, lines 286-308
SaveDueBeforeStep(completed) ==
    /\ args.save_logs
    /\ args.save_every_n_steps # 0
    /\ (completed - 1) % args.save_every_n_steps = 0

SaveDue(completed) ==
    /\ args.save_logs
    /\ args.save_every_n_steps # 0
    /\ completed % args.save_every_n_steps = 0

CheckpointRemoveFirst(fl, completed) ==
    IF ~SaveDue(completed) THEN [files |-> fl, log |-> <<>>]
    ELSE
        LET prev == completed - args.save_every_n_steps
        IN  IF args.delete_prev_step_ckpt /\ prev \in fl
            THEN [files |-> (fl \ {prev}) \cup {completed},
                  log |-> <<Ev("remove", prev), Ev("save", completed)>>]
            ELSE [files |-> fl \cup {completed}, log |-> <<Ev("save", completed)>>]

\* files and calls after the checkpoint block ran for this completed step
Checkpoint(fl, completed) ==
    IF ~SaveDue(completed) THEN [files |-> fl, log |-> <<>>]
    ELSE
        LET saved == fl \cup {completed}
            prev == completed - args.save_every_n_steps
        IN  IF args.delete_prev_step_ckpt /\ prev \in saved
            THEN [files |-> saved \ {prev},
                  log |-> <<Ev("save", completed), Ev("remove", prev)>>]
            ELSE [files |-> saved, log |-> <<Ev("save", completed)>>]

\* ------------------------------------------------- logging, lines 225-284
\* is_master(args) of the distributed helpers: the process of global rank 0
is_master(a) == a.rank = 0

\* seconds the dataloader takes to deliver batch b / the loop body takes on it
LoadTime(b) == 1 + (b % 2)
ComputeTime(b) == 2

\* time.time() - end at line 125
DataTime == elapsed + LoadTime(i)

\* time.time() - end at line 225
BatchTime == DataTime + ComputeTime(i)

LogDueAnyRank ==
    i_accum % args.log_every_n_steps = 0 \/ i_accum + 1 = num_batches_per_epoch

\* the condition of line 228
LogDue ==
    /\ is_master(args)
    /\ (i_accum % args.log_every_n_steps = 0 \/ i_accum + 1 = num_batches_per_epoch)

UpdateLossMetersPerWindow(lm, losses, batch_size) ==
    [k \in DOMAIN losses |-> update(NewMeter, losses[k], batch_size)]

\* lines 235-238: one meter per loss name, created on first use
UpdateLossMeters(lm, losses, batch_size) ==
    [k \in DOMAIN lm \cup DOMAIN losses |->
        IF k \notin DOMAIN losses THEN lm[k]
        ELSE update(IF k \in DOMAIN lm THEN lm[k] ELSE NewMeter, losses[k], batch_size)]

\* ----------------------------------------------------------------- actions
\* entry of train_one_epoch(epoch), lines 94-114; the caller passes consecutive epochs
Call ==
    /\ pc \in {"idle", "returned"}
    /\ (pc = "returned") => epoch + 1 < MaxEpochs
    /\ epoch' = IF pc = "idle" THEN epoch ELSE epoch + 1
    /\ pc' = "loop"
    /\ i' = 0
    /\ accum_images' = <<>>
    /\ accum_texts' = <<>>
    /\ accum_features' = EmptyDict
    /\ trace' = <<>>
    /\ lossCalls' = <<>>
    /\ losses_m' = EmptyDict
    /\ batch_time_m' = NewMeter
    /\ data_time_m' = NewMeter
    /\ elapsed' = 0
    /\ fed' = <<>>
    /\ UNCHANGED <<config, logit_scale, unclamped, optSteps, schedCalls,
                   files, fsLog, lastCkpt, logs, lastLog>>
    /\ UNCHANGED <<gradVars, meterVars>>

ResetAccumMissing(buf, empty) == buf

\* lines 216-218: the buffers are rebound to empty ones when accumulating
ResetAccum(buf, empty) == IF args.accum_freq > 1 THEN empty ELSE buf

\* lines 197-308 of an iteration that reaches the optimizer step; tr holds the
\* calls made before line 197, raw the value the optimizer leaves in logit_scale,
\* imgs / txts / feats the accumulation buffers as they are at line 197
FinishStep(tr, raw, losses, imgs, txts, feats) ==
    LET completed_step == step + 1
        ck == Checkpoint(files, completed_step)
        clamped == IF HasLogitScale(model) THEN Clamp(raw) ELSE logit_scale
        dt == update(data_time_m, DataTime, 1)
        bt == update(batch_time_m, BatchTime, 1)
        lm == UpdateLossMeters(losses_m, losses, BatchSize)
    IN  /\ optSteps' = Append(optSteps, step)
        /\ unclamped' = raw
        /\ logit_scale' = clamped
        /\ trace' = tr \o Finalize
                       \o (IF HasLogitScale(model) THEN <<Ev("clamp", 0)>> ELSE <<>>)
                       \o (IF LogDue THEN <<Ev("log", step)>> ELSE <<>>)
                       \o ck.log
        /\ IF LogDue
           THEN /\ losses_m' = lm
                /\ logs' = Append(logs, [epoch |-> epoch, i |-> i,
                                         i_accum |-> i_accum, step |-> step])
                /\ lastLog' = [epoch |-> epoch, i |-> i, data_time_m |-> dt,
                               batch_time_m |-> bt, losses_m |-> lm]
                /\ batch_time_m' = reset(bt)
                /\ data_time_m' = reset(dt)
           ELSE /\ batch_time_m' = bt
                /\ data_time_m' = dt
                /\ UNCHANGED <<losses_m, logs, lastLog>>
        /\ fed' = Append(fed, [i |-> i, data |-> DataTime, batch |-> BatchTime,
                               stepped |-> TRUE,
                               losses |-> losses,
                               logged |-> LogDue])
        /\ elapsed' = 0
        /\ files' = ck.files
        /\ fsLog' = fsLog \o ck.log
        /\ lastCkpt' = IF SaveDue(completed_step)
                          THEN [step |-> completed_step, epoch |-> epoch,
                                logit_scale |-> clamped]
                          ELSE lastCkpt
        /\ accum_images' = ResetAccum(imgs, <<>>)
        /\ accum_texts' = ResetAccum(txts, <<>>)
        /\ accum_features' = ResetAccum(feats, EmptyDict)
        /\ i' = i + 1
        /\ UNCHANGED <<config, pc, epoch, meterVars>>

\* one iteration with accum_freq == 1: lines 115-145, then 197-308
StepNoAccum ==
    /\ pc = "loop"
    /\ i < num_batches
    /\ args.accum_freq = 1
    /\ schedCalls' = schedCalls \o SchedulerCalls
    /\ LET call == LossCall(0, NoAccumKwargs(Prepared(epoch, i)))
       IN  /\ lossCalls' = <<call>>
           /\ grads' = Backward(zero_grad(grads), <<call>>, epoch, i)
           /\ UNCHANGED flushed
           /\ \E raw \in Updates :
                FinishStep(IterHead \o NoAccumTrace, raw, call.losses,
                           accum_images, accum_texts, accum_features)

\* one iteration with accum_freq > 1 that only caches: lines 115-126, 146-167
CacheOnly ==
    /\ pc = "loop"
    /\ i < num_batches
    /\ args.accum_freq > 1
    /\ (i + 1) % args.accum_freq > 0
    /\ schedCalls' = schedCalls \o SchedulerCalls
    /\ accum_features' = CacheFeatures(accum_features, Forward(Prepared(epoch, i), FALSE))
    /\ accum_images' = Append(accum_images, Prepared(epoch, i))
    /\ accum_texts' = Append(accum_texts, Prepared(epoch, i))
    /\ trace' = (IF i % args.accum_freq = 0 THEN <<>> ELSE trace)
                \o IterHead \o <<Ev("forward_no_grad", i)>>
    /\ lossCalls' = <<>>
    /\ i' = i + 1
    /\ data_time_m' = update(data_time_m, DataTime, 1)
    /\ elapsed' = DataTime + ComputeTime(i)
    /\ fed' = Append(fed, [i |-> i, data |-> DataTime, batch |-> 0,
                           stepped |-> FALSE, losses |-> EmptyDict, logged |-> FALSE])
    /\ UNCHANGED <<config, pc, epoch, logit_scale, unclamped,
                   optSteps, files, fsLog, lastCkpt>>
    /\ grads' = zero_grad(grads)
    /\ UNCHANGED <<losses_m, batch_time_m, logs, lastLog, flushed, meterVars>>

\* the last iteration of a window: lines 115-126, 146-195, then 197-308
FlushWindow ==
    /\ pc = "loop"
    /\ i < num_batches
    /\ args.accum_freq > 1
    /\ (i + 1) % args.accum_freq = 0
    /\ ~PopRaises(model.out_keys)
    /\ schedCalls' = schedCalls \o SchedulerCalls
    /\ LET feats == CacheFeatures(accum_features, Forward(Prepared(epoch, i), FALSE))
           imgs == Append(accum_images, Prepared(epoch, i))
           txts == Append(accum_texts, Prepared(epoch, i))
           calls == PhaseBCalls(imgs, feats)
       IN  /\ lossCalls' = calls
           /\ flushed' = [epoch |-> epoch, i |-> i, images |-> imgs, texts |-> txts,
                          features |-> feats]
           /\ grads' = Backward(zero_grad(zero_grad(grads)), calls, epoch, i)
           /\ \E raw \in Updates :
                FinishStep(trace \o IterHead
                                 \o <<Ev("forward_no_grad", i), Ev("zero_grad", i)>>
                                 \o PhaseBTrace(0), raw, calls[Len(calls)].losses,
                                 imgs, txts, feats)

\* the last iteration of a window when the recomputed output has no logit_scale:
\* model_out.pop("logit_scale") of line 180 raises KeyError for j = 0
RecomputeKeyError ==
    /\ pc = "loop"
    /\ i < num_batches
    /\ args.accum_freq > 1
    /\ (i + 1) % args.accum_freq = 0
    /\ PopRaises(model.out_keys)
    /\ schedCalls' = schedCalls \o SchedulerCalls
    /\ accum_features' = CacheFeatures(accum_features, Forward(Prepared(epoch, i), FALSE))
    /\ accum_images' = Append(accum_images, Prepared(epoch, i))
    /\ accum_texts' = Append(accum_texts, Prepared(epoch, i))
    /\ trace' = trace \o IterHead
                      \o <<Ev("forward_no_grad", i), Ev("zero_grad", i), Ev("forward", 0)>>
    /\ lossCalls' = <<>>
    /\ pc' = "failed"
    /\ data_time_m' = update(data_time_m, DataTime, 1)
    /\ elapsed' = DataTime
    /\ fed' = Append(fed, [i |-> i, data |-> DataTime, batch |-> 0,
                           stepped |-> FALSE, losses |-> EmptyDict, logged |-> FALSE])
    /\ UNCHANGED <<config, epoch, i, logit_scale, unclamped, optSteps,
                   files, fsLog, lastCkpt>>
    /\ grads' = zero_grad(zero_grad(grads))
    /\ flushed' = [epoch |-> epoch, i |-> i,
                   images |-> Append(accum_images, Prepared(epoch, i)),
                   texts |-> Append(accum_texts, Prepared(epoch, i)),
                   features |-> CacheFeatures(accum_features,
                                              Forward(Prepared(epoch, i), FALSE))]
    /\ UNCHANGED <<losses_m, batch_time_m, logs, lastLog, meterVars>>

\* the dataloader is exhausted: train_one_epoch returns
Return ==
    /\ pc = "loop"
    /\ i = num_batches
    /\ pc' = "returned"
    /\ UNCHANGED <<config, epoch, i, accum_images, accum_texts, accum_features,
                   logit_scale, unclamped, trace, lossCalls, optSteps,
                   schedCalls, files, fsLog, lastCkpt>>
    /\ UNCHANGED <<logVars, gradVars, meterVars>>

Next ==
    \/ Call
    \/ StepNoAccum
    \/ CacheOnly
    \/ FlushWindow
    \/ RecomputeKeyError
    \/ Return

\* ------------------------------------------------------- initial states
PlainName == <<"ViT", "B", "16">>
LiftName == <<"LIFT", "ViT", "B", "16">>

FeatureKeys == {"image_features", "text_features"}

OutKeySets ==
    { FeatureKeys, FeatureKeys \cup {"logit_scale"},
      FeatureKeys \cup {"logit_scale", "logit_bias"} }

\* the model object: bare or wrapped (DistributedDataParallel keeps it in .module)
Models(attrs, keysets) ==
    { [has_logit_scale |-> a, out_keys |-> ks] : a \in attrs, ks \in keysets }
    \cup
    { [module |-> [has_logit_scale |-> a], out_keys |-> ks] :
        a \in attrs, ks \in keysets }

\* the state before the first call, epochs starting at 0, no checkpoint on disk
InitRun ==
    /\ num_batches \in 1..MaxBatches
    /\ pc = "idle"
    /\ epoch = 0
    /\ i = 0
    /\ accum_images = <<>>
    /\ accum_texts = <<>>
    /\ accum_features = EmptyDict
    /\ logit_scale = IF HasLogitScale(model) THEN 2659 ELSE 0
    /\ unclamped = logit_scale
    /\ trace = <<>>
    /\ lossCalls = <<>>
    /\ optSteps = <<>>
    /\ schedCalls = <<>>
    /\ files = {}
    /\ fsLog = <<>>
    /\ lastCkpt = [step |-> 0, epoch |-> 0, logit_scale |-> 0]
    /\ losses_m = EmptyDict
    /\ batch_time_m = NewMeter
    /\ data_time_m = NewMeter
    /\ elapsed = 0
    /\ logs = <<>>
    /\ lastLog = [epoch |-> 0, i |-> 0, data_time_m |-> NewMeter,
                  batch_time_m |-> NewMeter, losses_m |-> EmptyDict]
    /\ fed = <<>>
    /\ grads = <<>>
    /\ flushed = [epoch |-> 0, i |-> 0, images |-> <<>>, texts |-> <<>>,
                  features |-> EmptyDict]
    /\ meter = NewMeter
    /\ history = <<>>

\* accumulation and scheduling: no scaler, no checkpoints
Init ==
    /\ args \in [accum_freq : 1..MaxAccum, skip_scheduler : BOOLEAN,
                 save_logs : {FALSE}, save_every_n_steps : {0},
                 delete_prev_step_ckpt : {FALSE}, horovod : {FALSE},
                 grad_clip_norm : {"None"}, model : {PlainName},
                 distill : {FALSE}, rank : {0}, log_every_n_steps : {1}]
    /\ scaler = "None"
    /\ model \in Models({FALSE}, OutKeySets)
    /\ InitRun

Spec == Init /\ [][Next]_vars

\* checkpoint cadence and retention
InitCkpt ==
    /\ args \in [accum_freq : 1..MaxAccum, skip_scheduler : {FALSE},
                 save_logs : BOOLEAN, save_every_n_steps : 0..MaxSaveEvery,
                 delete_prev_step_ckpt : BOOLEAN, horovod : {FALSE},
                 grad_clip_norm : {"None"}, model : {PlainName},
                 distill : {FALSE}, rank : {0}, log_every_n_steps : {1}]
    /\ scaler = "None"
    /\ model \in Models({FALSE}, {FeatureKeys, FeatureKeys \cup {"logit_scale"}})
    /\ InitRun

SpecCkpt == InitCkpt /\ [][Next]_vars

\* scaler x horovod x clipping x model family x logit_scale parameter
InitGrad ==
    /\ args \in [accum_freq : 1..MaxAccum, skip_scheduler : {FALSE},
                 save_logs : {TRUE}, save_every_n_steps : {1},
                 delete_prev_step_ckpt : {FALSE}, horovod : BOOLEAN,
                 grad_clip_norm : {"None", "1.0"}, model : {PlainName, LiftName},
                 distill : {FALSE}, rank : {0}, log_every_n_steps : {1}]
    /\ scaler \in {"None", "GradScaler"}
    /\ model \in Models(BOOLEAN, {FeatureKeys, FeatureKeys \cup {"logit_scale"}})
    /\ InitRun

SpecGrad == InitGrad /\ [][Next]_vars

\* logging and distillation: every rank, log period and accumulation frequency
InitLog ==
    /\ args \in [accum_freq : 1..MaxAccum, skip_scheduler : {FALSE},
                 save_logs : {TRUE}, save_every_n_steps : {MaxSaveEvery},
                 delete_prev_step_ckpt : {FALSE}, horovod : {FALSE},
                 grad_clip_norm : {"None"}, model : {PlainName},
                 distill : BOOLEAN, rank : {0, 1},
                 log_every_n_steps : 1..MaxLogEvery]
    /\ scaler = "None"
    /\ model \in Models({FALSE}, {FeatureKeys, FeatureKeys \cup {"logit_scale"}})
    /\ InitRun

SpecLog == InitLog /\ [][Next]_vars

\* ------------------------------------------- AverageMeter on its own
\* meter.update(val, n) with n > 0
MeterUpdate ==
    /\ Len(history) < MaxCalls
    /\ \E val \in 0..MaxVal, n \in 1..MaxN :
        /\ meter' = update(meter, val, n)
        /\ history' = Append(history, [op |-> "update", val |-> val, n |-> n])
    /\ UNCHANGED <<config, pc, epoch, i, accum_images, accum_texts,
                   accum_features, logit_scale, unclamped, trace, lossCalls,
                   optSteps, schedCalls, files, fsLog, lastCkpt, logVars, gradVars>>

\* meter.reset()
MeterReset ==
    /\ Len(history) < MaxCalls
    /\ meter' = reset(meter)
    /\ history' = Append(history, [op |-> "reset", val |-> 0, n |-> 0])
    /\ UNCHANGED <<config, pc, epoch, i, accum_images, accum_texts,
                   accum_features, logit_scale, unclamped, trace, lossCalls,
                   optSteps, schedCalls, files, fsLog, lastCkpt, logVars, gradVars>>

NextMeter == MeterUpdate \/ MeterReset

InitMeter ==
    /\ args = [accum_freq |-> 1, skip_scheduler |-> FALSE, save_logs |-> FALSE,
               save_every_n_steps |-> 0, delete_prev_step_ckpt |-> FALSE,
               horovod |-> FALSE, grad_clip_norm |-> "None", model |-> PlainName,
               distill |-> FALSE, rank |-> 0, log_every_n_steps |-> 1]
    /\ scaler = "None"
    /\ model = [has_logit_scale |-> FALSE, out_keys |-> FeatureKeys]
    /\ InitRun
    /\ num_batches = 1

SpecMeter == InitMeter /\ [][NextMeter]_vars

\* ================================================================ claims
Positions(tr, ops) == {p \in 1..Len(tr) : tr[p][1] \in ops}

StepOps == {"optimizer_step", "scaler_step"}

BackwardOps == {"backward", "scaled_backward"}

CachedKeys == model.out_keys \ NoAccumKeys

\* C1: with accum_freq = K > 1, the loss call of slot j of a completed window gets,
\* for every cached feature name, the K slices of the window in micro-batch order:
\* slice j from the gradient-bearing recomputation of micro-batch j, every other
\* slice i the no-gradient value cached for micro-batch i.
C1_SubstitutionOrder ==
    (args.accum_freq > 1 /\ lossCalls # <<>>) =>
        LET K == args.accum_freq
        IN  /\ Len(lossCalls) = K
            /\ \A n \in 1..K :
                /\ lossCalls[n].slot = n - 1
                /\ \A k \in CachedKeys :
                    /\ k \in DOMAIN lossCalls[n].kwargs
                    /\ Len(lossCalls[n].kwargs[k]) = K * BatchSize
                    /\ \A m \in 0..(K - 1), r \in 1..BatchSize :
                        lossCalls[n].kwargs[k][m * BatchSize + r] =
                            [net |-> "model", key |-> k, epoch |-> epoch,
                             mb |-> (i - K) + m, row |-> r, grad |-> (m = n - 1)]

C1_Witness ==
    /\ args.accum_freq = 3
    /\ Len(lossCalls) = 3
    /\ lossCalls[2].kwargs["text_features"][2 * BatchSize].grad
    /\ ~lossCalls[2].kwargs["text_features"][3 * BatchSize].grad

\* C2: every optimizer step of the run carries the next global step value (0, 1,
\* 2, ... without repeat or gap, across epochs), and when train_one_epoch returns
\* it has taken floor(B / F) steps in the epoch, the last one at
\* (B // F) * epoch + floor(B / F) - 1.
C2_StepCount ==
    LET perEpoch == num_batches \div args.accum_freq
    IN  /\ \A p \in 1..Len(optSteps) : optSteps[p] = p - 1
        /\ (pc = "returned") =>
            /\ Len(optSteps) = (epoch + 1) * perEpoch
            /\ perEpoch > 0 =>
                optSteps[Len(optSteps)] = perEpoch * epoch + perEpoch - 1
        /\ (pc = "loop") => Len(optSteps) = epoch * perEpoch + (i \div args.accum_freq)

C2_Witness ==
    /\ pc = "returned"
    /\ epoch = 1
    /\ args.accum_freq = 2
    /\ num_batches = 3
    /\ optSteps = <<0, 1>>

SaveCalls == SelectSeq(fsLog, LAMBDA e : e[1] = "save")

\* C3: with save_logs and save_every_n_steps = S # 0, after N optimizer steps the
\* checkpoints written are exactly step_S, step_2S, ... up to N, each once and in
\* this order; with save_logs off or S = 0 nothing is ever written.
C3_CheckpointCadence ==
    LET S == args.save_every_n_steps
        N == Len(optSteps)
    IN  IF args.save_logs /\ S # 0
        THEN /\ Len(SaveCalls) = N \div S
             /\ \A k \in 1..Len(SaveCalls) : SaveCalls[k] = <<"save", k * S>>
        ELSE fsLog = <<>> /\ files = {}

C3_Witness ==
    /\ args.save_logs
    /\ args.save_every_n_steps = 2
    /\ args.accum_freq = 2
    /\ Len(optSteps) = 3
    /\ SaveCalls = <<(<<"save", 2>>)>>

\* C4: with delete_prev_step_ckpt, once step_kS is written (k >= 2) step_(k-1)S is
\* gone; a file is removed only right after the write of the checkpoint one
\* interval later, and only if it exists (a missing one is skipped, the run goes on).
C4_RetainLatest ==
    LET S == args.save_every_n_steps
    IN  (args.save_logs /\ S # 0 /\ args.delete_prev_step_ckpt) =>
            /\ \A p \in 1..Len(fsLog) :
                fsLog[p][1] = "remove" =>
                    /\ p > 1
                    /\ fsLog[p - 1] = <<"save", fsLog[p][2] + S>>
                    /\ \E q \in 1..(p - 1) : fsLog[q] = <<"save", fsLog[p][2]>>
                    /\ \A q \in 1..(p - 1) : fsLog[q] # fsLog[p]
            /\ \A p \in 1..Len(fsLog) :
                (fsLog[p][1] = "save" /\ fsLog[p][2] >= 2 * S) =>
                    /\ p < Len(fsLog)
                    /\ fsLog[p + 1] = <<"remove", fsLog[p][2] - S>>
                    /\ (fsLog[p][2] - S) \notin files
            /\ fsLog # <<>> => fsLog[1] = <<"save", S>>
            /\ Len(fsLog) >= 2 => fsLog[2] = <<"save", 2 * S>>
            /\ files = IF fsLog = <<>> THEN {} ELSE {S * (Len(optSteps) \div S)}

C4_Witness ==
    /\ args.delete_prev_step_ckpt
    /\ args.save_every_n_steps = 2
    /\ fsLog = <<(<<"save", 2>>), <<"save", 4>>, <<"remove", 2>>>>
    /\ files = {4}

\* C5: once an optimizer step was taken on a model that exposes logit_scale, the
\* parameter lies in [0, ln 100]: below 0 becomes 0, above ln 100 becomes ln 100,
\* a value inside is kept; the clamp comes right after the step (and the scale
\* update), before any later forward or checkpoint, which stores the clamped value.
C5_LogitScaleClamp ==
    (HasLogitScale(model) /\ optSteps # <<>>) =>
        /\ logit_scale >= 0
        /\ logit_scale <= Ln100
        /\ unclamped < 0 => logit_scale = 0
        /\ unclamped > Ln100 => logit_scale = Ln100
        /\ (unclamped >= 0 /\ unclamped <= Ln100) => logit_scale = unclamped
        /\ \A p \in Positions(trace, StepOps) :
            LET q == IF scaler # "None" THEN p + 2 ELSE p + 1
            IN  /\ scaler # "None" => trace[p + 1] = <<"scaler_update", 0>>
                /\ Len(trace) >= q
                /\ trace[q] = <<"clamp", 0>>
        /\ lastCkpt.step = Len(optSteps) => lastCkpt.logit_scale = logit_scale

C5_Witness ==
    /\ "module" \in DOMAIN model
    /\ HasLogitScale(model)
    /\ scaler # "None"
    /\ args.horovod
    /\ args.accum_freq = 2
    /\ Len(optSteps) = 2
    /\ unclamped = 5000
    /\ logit_scale = Ln100
    /\ lastCkpt = [step |-> 2, epoch |-> 0, logit_scale |-> Ln100]

\* the gradients are unscaled at position p of the window's calls: an unscale_ call
\* was made since the last backward
Unscaled(tr, p) ==
    \E q \in 1..(p - 1) :
        /\ tr[q][1] = "unscale"
        /\ \A r \in q..p : tr[r][1] \notin BackwardOps

\* C6: with a scaler active, every clip_grad_norm_ call of a step (the
\* grad_clip_norm clip and the clip-to-1 of the LIFT family) acts on gradients
\* already unscaled in that step.
C6_ClipAfterUnscale ==
    scaler # "None" =>
        \A p \in Positions(trace, {"clip", "clip_lift"}) : Unscaled(trace, p)

\* calls that synchronize gradients under horovod: the explicit synchronize, and an
\* optimizer step made outside skip_synchronize()
SyncPositions(tr) ==
    {p \in 1..Len(tr) :
        \/ tr[p][1] = "synchronize"
        \/ tr[p] = <<"optimizer_step", 0>>
        \/ tr[p] = <<"scaler_step", 0>>}

\* C7 as stated: under horovod one synchronization per optimizer step, after the
\* gradients are unscaled and before they are clipped.
C7_SyncAfterUnscale ==
    (args.horovod /\ Positions(trace, StepOps) # {}) =>
        /\ Cardinality(SyncPositions(trace)) = 1
        /\ \A p \in SyncPositions(trace) :
            /\ scaler # "None" => \E q \in 1..(p - 1) : trace[q][1] = "unscale"
            /\ \A q \in Positions(trace, {"clip", "clip_lift"}) : p < q

\* C7 as amended: under horovod with a scaler, one explicit synchronize per
\* optimizer step, the step itself inside skip_synchronize; the synchronize comes
\* after the last backward (and the LIFT clip-to-1), before unscale_, which comes
\* before the grad_clip_norm clip; without a scaler no explicit synchronize is made.
C7_SyncBeforeUnscale ==
    (args.horovod /\ Positions(trace, StepOps) # {}) =>
        IF scaler # "None"
        THEN /\ Cardinality(SyncPositions(trace)) = 1
             /\ \A p \in Positions(trace, {"synchronize"}) :
                 /\ \A q \in Positions(trace, BackwardOps) : q < p
                 /\ trace[p + 1] = <<"unscale", 0>>
                 /\ \A q \in Positions(trace, {"clip"}) : q = p + 2
                 /\ \A q \in Positions(trace, {"clip_lift"}) : q < p
                 /\ \A q \in Positions(trace, StepOps) :
                     q > p + 1 /\ trace[q] = <<"scaler_step", 1>>
        ELSE Positions(trace, {"synchronize"}) = {}

C7_Witness ==
    /\ args.horovod
    /\ scaler # "None"
    /\ args.grad_clip_norm # "None"
    /\ args.accum_freq = 2
    /\ Positions(trace, {"synchronize"}) # {}
    /\ Positions(trace, {"clip"}) # {}
    /\ Positions(trace, StepOps) # {}

\* the forward, loss, backward and optimizer-step calls of the window, in order
WindowCalls ==
    SelectSeq(trace, LAMBDA e :
        e[1] \in {"forward_no_grad", "forward", "loss"} \cup BackwardOps \cup StepOps)

\* C8: with accum_freq = F > 1 a window makes F no-gradient caching forwards in
\* data order and nothing else of these calls until all F are done; then for
\* j = 0 .. F-1 a gradient-bearing forward, one loss, one backward; then exactly
\* one optimizer step.
C8_WindowProtocol ==
    (args.accum_freq > 1 /\ pc \in {"loop", "returned"}) =>
        LET F == args.accum_freq
            done == i % F
        IN  IF done # 0
            THEN WindowCalls = [p \in 1..done |-> <<"forward_no_grad", i - done + p - 1>>]
            ELSE IF trace = <<>> THEN i = 0
            ELSE WindowCalls =
                    [p \in 1..(4 * F + 1) |->
                        IF p <= F THEN <<"forward_no_grad", i - F + p - 1>>
                        ELSE IF p = 4 * F + 1 THEN <<"optimizer_step", 0>>
                        ELSE LET j == (p - F - 1) \div 3
                                 r == (p - F - 1) % 3
                             IN  IF r = 0 THEN <<"forward", j>>
                                 ELSE IF r = 1 THEN <<"loss", j>>
                                 ELSE <<"backward", j>>]

C8_Witness ==
    /\ args.accum_freq = 2
    /\ i = 4
    /\ Len(WindowCalls) = 9
    /\ WindowCalls[9] = <<"optimizer_step", 0>>

BuffersEmpty ==
    /\ accum_images = <<>>
    /\ accum_texts = <<>>
    /\ DOMAIN accum_features = {}

\* every row a loss call of the last iteration received comes from the window
\* that iteration closed
LossSeesOwnWindow ==
    \A n \in 1..Len(lossCalls) :
        \A k \in DOMAIN lossCalls[n].kwargs :
            \A p \in 1..Len(lossCalls[n].kwargs[k]) :
                /\ lossCalls[n].kwargs[k][p].epoch = epoch
                /\ lossCalls[n].kwargs[k][p].mb >= i - args.accum_freq
                /\ lossCalls[n].kwargs[k][p].mb < i

\* C9 as stated: with accum_freq > 1 and any number of batches the buffers are
\* empty at the start of every window and when train_one_epoch returns, and no
\* loss sees an entry of another window.
C9_BuffersEmptyAtReturn ==
    (args.accum_freq > 1) =>
        /\ (pc = "loop" /\ i % args.accum_freq = 0) => BuffersEmpty
        /\ (pc = "returned") => BuffersEmpty
        /\ LossSeesOwnWindow

\* C9 as amended: the buffers are empty at the start of every window; at return
\* they hold the B mod F entries of the unfinished last window (empty exactly when
\* F divides B); the entries held are those of the current window, in order, and no
\* loss sees an entry of another window.
C9_BuffersHoldOpenWindow ==
    (args.accum_freq > 1 /\ pc \in {"loop", "returned"}) =>
        LET held == i % args.accum_freq
        IN  /\ Len(accum_images) = held
            /\ Len(accum_texts) = held
            /\ held = 0 => DOMAIN accum_features = {}
            /\ held > 0 => DOMAIN accum_features = CachedKeys
            /\ \A k \in DOMAIN accum_features : Len(accum_features[k]) = held
            /\ \A m \in 1..held :
                /\ accum_images[m] = [epoch |-> epoch, mb |-> i - held + m - 1]
                /\ accum_texts[m] = accum_images[m]
                /\ \A k \in DOMAIN accum_features :
                    \A r \in 1..BatchSize :
                        accum_features[k][m][r] =
                            [net |-> "model", key |-> k, epoch |-> epoch,
                             mb |-> i - held + m - 1, row |-> r, grad |-> FALSE]
            /\ (pc = "returned") => held = num_batches % args.accum_freq
            /\ LossSeesOwnWindow

C9_Witness ==
    /\ pc = "returned"
    /\ args.accum_freq = 2
    /\ num_batches = 3
    /\ epoch = 1
    /\ Len(accum_images) = 1
    /\ Len(optSteps) = 2

\* C10 as stated: unless skip_scheduler, the scheduler is called once per
\* optimizer step with that step's value, no value twice, none for which the
\* epoch takes no step; with skip_scheduler never.
C10_SchedulerOncePerStep ==
    IF args.skip_scheduler THEN schedCalls = <<>>
    ELSE /\ \A p, q \in 1..Len(schedCalls) : p # q => schedCalls[p] # schedCalls[q]
         /\ (pc = "returned") => schedCalls = optSteps

\* C10 as amended: unless skip_scheduler, the scheduler is called once per batch,
\* at the top of the iteration, with num_batches_per_epoch * epoch + i // F: each
\* optimizer step's value is passed F times before that step, and the B mod F
\* batches after the last full window pass the value of the next epoch's first
\* step; with accum_freq = 1 this is once per optimizer step; with skip_scheduler
\* never.
C10_SchedulerOncePerBatch ==
    IF args.skip_scheduler THEN schedCalls = <<>>
    ELSE LET F == args.accum_freq
             B == num_batches
         IN  /\ pc \in {"loop", "returned"} => Len(schedCalls) = epoch * B + i
             /\ pc = "failed" => Len(schedCalls) = epoch * B + i + 1
             /\ \A p \in 1..Len(schedCalls) :
                 schedCalls[p] =
                    (B \div F) * ((p - 1) \div B) + (((p - 1) % B) \div F)
             /\ (F = 1 /\ pc \in {"loop", "returned"}) => schedCalls = optSteps

C10_Witness ==
    /\ ~args.skip_scheduler
    /\ args.accum_freq = 2
    /\ num_batches = 3
    /\ pc = "returned"
    /\ schedCalls = <<0, 0, 1, 1, 1, 2>>
    /\ optSteps = <<0, 1>>


\* the update calls made since the last reset call (or since construction)
RECURSIVE SinceReset(_)
SinceReset(h) ==
    IF h = <<>> \/ h[Len(h)].op = "reset" THEN <<>>
    ELSE Append(SinceReset(SubSeq(h, 1, Len(h) - 1)), h[Len(h)])

RECURSIVE SumProducts(_)
SumProducts(h) == IF h = <<>> THEN 0 ELSE Head(h).val * Head(h).n + SumProducts(Tail(h))

RECURSIVE SumCounts(_)
SumCounts(h) == IF h = <<>> THEN 0 ELSE Head(h).n + SumCounts(Tail(h))

\* C19: a new or reset AverageMeter has val = avg = sum = count = 0; after the
\* updates (v_1, n_1) .. (v_m, n_m) made since then, val = v_m, sum = the sum of
\* v_i * n_i, count = the sum of n_i and avg * count = sum; updates made before
\* a reset leave no trace.
C19_AverageMeter ==
    LET h == SinceReset(history)
    IN  IF h = <<>>
        THEN meter.val = 0 /\ meter.sum = 0 /\ meter.count = 0 /\ meter.avg.num = 0
        ELSE /\ meter.val = h[Len(h)].val
             /\ meter.sum = SumProducts(h)
             /\ meter.count = SumCounts(h)
             /\ meter.avg.num * meter.count = meter.sum * meter.avg.den
             /\ meter.avg.den > 0

\* an update, a reset, then two updates with different weights
C19_Witness ==
    /\ Len(history) = 4
    /\ history[1].op = "update" /\ history[1].val = 2
    /\ history[2].op = "reset"
    /\ SinceReset(history) = <<[op |-> "update", val |-> 2, n |-> 2],
                               [op |-> "update", val |-> 1, n |-> 1]>>
    /\ meter.sum = 5
    /\ meter.count = 3
    /\ meter.avg = [num |-> 5, den |-> 3]


\* -------------------------------------------------------------- logging
\* the optimizer step of global index st is one the log condition selects
LogExpected(st) ==
    /\ args.rank = 0
    /\ \/ (st % num_batches_per_epoch) % args.log_every_n_steps = 0
       \/ (st % num_batches_per_epoch) + 1 = num_batches_per_epoch

LoggedSteps == [n \in 1..Len(logs) |-> logs[n].step]

\* C11: a log record follows an optimizer step exactly when the process is the
\* primary one and the step's index within its epoch is a multiple of
\* log_every_n_steps or the step is the last of the epoch; any other process
\* emits nothing and never touches the loss meters.
C11_LogTrigger ==
    /\ LoggedSteps = SelectSeq(optSteps, LogExpected)
    /\ \A n \in 1..Len(logs) :
        /\ logs[n].epoch = logs[n].step \div num_batches_per_epoch
        /\ logs[n].i_accum = logs[n].step % num_batches_per_epoch
    /\ (args.rank # 0) => (logs = <<>> /\ losses_m = EmptyDict)

\* six steps with a log period of two: steps 0, 2, 4 by the period, 5 as the last
C11_Witness ==
    /\ args.accum_freq = 1
    /\ args.log_every_n_steps = 2
    /\ optSteps = <<0, 1, 2, 3, 4, 5>>
    /\ LoggedSteps = <<0, 2, 4, 5>>

\* the last loop iteration emitted a log record
JustLogged == fed # <<>> /\ fed[Len(fed)].logged

\* index in fed of the emission before the last entry, 0 when there is none
PrevLog ==
    LET before == {n \in 1..(Len(fed) - 1) : fed[n].logged}
    IN  IF before = {} THEN 0 ELSE CHOOSE n \in before : \A m \in before : m <= n

RECURSIVE SumOver(_, _)
SumOver(S, f) ==
    IF S = {} THEN 0
    ELSE LET n == CHOOSE x \in S : TRUE IN f[n] + SumOver(S \ {n}, f)

\* the timing meters a log record reads cover the iterations after the
\* previous record (or after the start of the call) and are reset behind it
TimingMetersPerWindow ==
    LET window == (PrevLog + 1)..Len(fed)
        stepped == {n \in window : fed[n].stepped}
    IN  /\ lastLog.data_time_m.count = Cardinality(window)
        /\ lastLog.data_time_m.sum = SumOver(window, [n \in window |-> fed[n].data])
        /\ lastLog.batch_time_m.count = Cardinality(stepped)
        /\ lastLog.batch_time_m.sum = SumOver(stepped, [n \in stepped |-> fed[n].batch])
        /\ data_time_m = NewMeter
        /\ batch_time_m = NewMeter

\* C12 as stated: at a log emission every meter, the loss meters included,
\* covers only what was recorded since the previous emission.
C12_AllMetersPerWindow ==
    JustLogged =>
        /\ TimingMetersPerWindow
        /\ \A k \in DOMAIN lastLog.losses_m :
            /\ lastLog.losses_m[k].count = BatchSize
            /\ lastLog.losses_m[k].sum = fed[Len(fed)].losses[k] * BatchSize

\* C12, amended: the timing meters are reset after each log emission and cover
\* one log window; the loss meters are created once per call and never reset,
\* so they cover every emission of the epoch so far.
C12_TimingPerWindowLossPerEpoch ==
    JustLogged =>
        LET emitted == {n \in 1..Len(fed) : fed[n].logged}
        IN  /\ TimingMetersPerWindow
            /\ losses_m = lastLog.losses_m
            /\ DOMAIN losses_m = DOMAIN fed[Len(fed)].losses
            /\ \A k \in DOMAIN losses_m :
                /\ losses_m[k].val = fed[Len(fed)].losses[k]
                /\ losses_m[k].count = BatchSize * Cardinality(emitted)
                /\ losses_m[k].sum =
                      BatchSize * SumOver(emitted, [n \in emitted |-> fed[n].losses[k]])

\* the second emission of an epoch, two cached batches and a flush after the first
C12_Witness ==
    /\ JustLogged
    /\ args.accum_freq = 3
    /\ args.log_every_n_steps = 1
    /\ Len(fed) = 6
    /\ PrevLog = 3
    /\ lastLog.data_time_m.count = 3
    /\ lastLog.losses_m["loss"].count = 2 * BatchSize


\* ------------------------------------------------------------ total loss
\* C13: in both paths the total handed to backward is the sum of exactly the
\* components the loss function returned for that call, taken before the
\* "loss" entry is inserted, and the inserted "loss" entry equals that total.
C13_TotalLoss ==
    \A n \in 1..Len(lossCalls) :
        LET c == lossCalls[n]
        IN  /\ c.returned = Loss(c.kwargs)
            /\ c.backward = SumOver(DOMAIN c.returned, c.returned)
            /\ DOMAIN c.losses = DOMAIN c.returned \cup {"loss"}
            /\ c.losses["loss"] = c.backward
            /\ \A k \in DOMAIN c.returned : c.losses[k] = c.returned[k]

\* a two-component loss in the non-accumulating path: 3 + 4 = 7
C13_Witness ==
    /\ args.accum_freq = 1
    /\ args.distill
    /\ Len(lossCalls) = 1
    /\ DOMAIN lossCalls[1].returned = {"contrastive_loss", "distill_loss"}
    /\ lossCalls[1].returned["contrastive_loss"] = 3
    /\ lossCalls[1].backward = 7
    /\ lossCalls[1].losses["loss"] = 7


\* -------------------------------------------- missing logit_scale, line 180
FailedOps == {"loss", "backward", "scaled_backward", "optimizer_step",
              "scaler_step", "scaler_update", "clamp", "log", "save", "remove"}

\* C14: with accum_freq > 1 a recomputed output without logit_scale ends the
\* call at the first flush: no loss, backward, optimizer step, finalization,
\* log or checkpoint for that window, and no later batch (the call returns
\* only if the epoch is too short to fill one window); an output that has
\* logit_scale but no logit_bias never fails.
C14_MissingLogitScaleFatal ==
    /\ (args.accum_freq > 1 /\ "logit_scale" \notin model.out_keys) =>
        /\ i < args.accum_freq
        /\ optSteps = <<>> /\ logs = <<>> /\ fsLog = <<>> /\ files = {}
        /\ lossCalls = <<>>
        /\ \A p \in 1..Len(trace) : trace[p][1] \notin FailedOps
        /\ (pc = "returned") => num_batches < args.accum_freq
        /\ (pc = "loop" /\ i = args.accum_freq - 1 /\ i < num_batches)
              => ENABLED RecomputeKeyError
        /\ (pc = "failed") =>
              /\ i = args.accum_freq - 1
              /\ trace[Len(trace)] = Ev("forward", 0)
              /\ ~ENABLED Next
    /\ ("logit_scale" \in model.out_keys) => pc # "failed"
    /\ (args.accum_freq = 1) => pc # "failed"

\* the second batch of a window of two was recomputed without logit_scale
C14_Witness ==
    /\ pc = "failed"
    /\ args.accum_freq = 2
    /\ args.save_logs /\ args.save_every_n_steps = 1
    /\ i = 1
    /\ num_batches > 2
    /\ Len(accum_images) = 2


\* ------------------------------ the two-phase protocol with a window of F
\* the batches of epoch e with index below n, in loader order
Batches(e, n) == [k \in 1..n |-> [epoch |-> e, i |-> k - 1]]

RECURSIVE EpochsBefore(_)
EpochsBefore(e) ==
    IF e = 0 THEN <<>> ELSE EpochsBefore(e - 1) \o Batches(e - 1, num_batches)

\* the batches whose loop iteration has completed
Processed == IF pc = "idle" THEN <<>> ELSE EpochsBefore(epoch) \o Batches(epoch, i)

\* lines 146-195 with a window of F: a batch ends a window when (i + 1) % F = 0
\* (line 165) and every such flush pops logit_scale (line 180)
AccumFlushes(F) ==
    LET EndsWindow(b) == (b.i + 1) % F = 0
    IN  IF PopRaises(model.out_keys) THEN <<>> ELSE SelectSeq(Processed, EndsWindow)

\* lines 105, 116-117 with a window of F
AccumStep(F, b) == (num_batches \div F) * b.epoch + (b.i \div F)

\* line 228 with a window of F
AccumLogDue(F, b) ==
    /\ is_master(args)
    /\ \/ (b.i \div F) % args.log_every_n_steps = 0
       \/ (b.i \div F) + 1 = num_batches \div F

AccumSteps(F) ==
    LET fl == AccumFlushes(F) IN [n \in 1..Len(fl) |-> AccumStep(F, fl[n])]

AccumLogs(F) ==
    LET Due(b) == AccumLogDue(F, b)
        fl == SelectSeq(AccumFlushes(F), Due)
    IN  [n \in 1..Len(fl) |-> [epoch |-> fl[n].epoch, i |-> fl[n].i,
                               i_accum |-> fl[n].i \div F, step |-> AccumStep(F, fl[n])]]

AccumSaves(F) ==
    LET Due(b) == SaveDue(AccumStep(F, b) + 1)
        fl == SelectSeq(AccumFlushes(F), Due)
    IN  [n \in 1..Len(fl) |-> Ev("save", AccumStep(F, fl[n]) + 1)]

\* the optimizer steps, log records and checkpoints of the run are those of
\* the two-phase protocol with a window of F
SameAsAccum(F) ==
    /\ optSteps = AccumSteps(F)
    /\ logs = AccumLogs(F)
    /\ SaveCalls = AccumSaves(F)

\* only the accum_freq == 1 branch has run: no caching pass, no second zero_grad
NonAccumBranchOnly ==
    /\ accum_images = <<>> /\ accum_texts = <<>> /\ accum_features = EmptyDict
    /\ Len(lossCalls) <= 1
    /\ \A p \in 1..Len(trace) : trace[p][1] # "forward_no_grad"
    /\ Len(optSteps) = Len(Processed)

\* C15 as stated: with accum_freq = 1 every batch takes the non-accumulating
\* branch and the steps, log points and checkpoint points are those of the
\* two-phase protocol with a window of 1.
C15_SameAsWindowOfOne ==
    /\ (args.accum_freq > 1 /\ pc # "failed") => SameAsAccum(args.accum_freq)
    /\ (args.accum_freq = 1) => (NonAccumBranchOnly /\ SameAsAccum(1))

\* C15, amended: the equivalence holds when the model's output has logit_scale;
\* without it the two-phase protocol stops at its first flush while the
\* non-accumulating branch steps once per batch.
C15_SameAsWindowOfOneWithLogitScale ==
    /\ (args.accum_freq > 1 /\ pc # "failed") => SameAsAccum(args.accum_freq)
    /\ (args.accum_freq = 1) => NonAccumBranchOnly
    /\ (args.accum_freq = 1 /\ "logit_scale" \in model.out_keys) => SameAsAccum(1)
    /\ (args.accum_freq = 1 /\ "logit_scale" \notin model.out_keys) =>
          (AccumSteps(1) = <<>> /\ Len(optSteps) = Len(Processed))

\* two epochs of three batches with accum_freq = 1: six steps, logs at indices
\* 0 and 2 of each epoch, checkpoints after every second step
C15_Witness ==
    /\ args.accum_freq = 1
    /\ "logit_scale" \in model.out_keys
    /\ args.rank = 0 /\ args.log_every_n_steps = 2
    /\ num_batches = 3
    /\ optSteps = <<0, 1, 2, 3, 4, 5>>
    /\ LoggedSteps = <<0, 2, 3, 5>>
    /\ SaveCalls = <<Ev("save", 2), Ev("save", 4), Ev("save", 6)>>


\* ------------------------------------------------- the buffers at a flush
\* line 172 has been reached at least once
Flushed == flushed.images # <<>>

\* C16: with accum_freq = F > 1, when Phase B starts the cached images, the
\* cached texts and the cached list of every feature name have length F, entry
\* n of each coming from micro-batch n of the current window; logit_scale and
\* logit_bias are never keys of the feature cache.
C16_BuffersAtFlush ==
    /\ DOMAIN accum_features \cap NoAccumKeys = {}
    /\ DOMAIN flushed.features \cap NoAccumKeys = {}
    /\ (args.accum_freq = 1) => ~Flushed
    /\ Flushed =>
        LET F == args.accum_freq
            first == flushed.i - (F - 1)
        IN  /\ Len(flushed.images) = F
            /\ Len(flushed.texts) = F
            /\ DOMAIN flushed.features = model.out_keys \ NoAccumKeys
            /\ \A k \in DOMAIN flushed.features : Len(flushed.features[k]) = F
            /\ \A n \in 1..F :
                /\ flushed.images[n] = Prepared(flushed.epoch, first + n - 1)
                /\ flushed.texts[n] = Prepared(flushed.epoch, first + n - 1)
                /\ \A k \in DOMAIN flushed.features :
                    flushed.features[k][n] =
                        Tensor("model", k, Prepared(flushed.epoch, first + n - 1), FALSE)

\* the second window of the second epoch, F = 3, an output with both scalars
C16_Witness ==
    /\ args.accum_freq = 3
    /\ model.out_keys = FeatureKeys \cup {"logit_scale", "logit_bias"}
    /\ flushed.epoch = 1
    /\ flushed.i = 5
    /\ Len(flushed.features["text_features"]) = 3
    /\ flushed.images[1].mb = 3

\* -------------------------------------------- what the optimizer step consumes
\* the last loop iteration took an optimizer step
JustStepped == lossCalls # <<>>

ZeroGradPositions == {p \in 1..Len(trace) : trace[p][1] = "zero_grad"}

BackwardPositions ==
    {p \in 1..Len(trace) : trace[p][1] \in {"backward", "scaled_backward"}}

\* C17: the gradient an optimizer step consumes is the accumulation of the
\* backward calls of that step alone: one in the non-accumulating path, F (for
\* j = 0 .. F-1) in the accumulating path, each reaching only the forward pass
\* recomputed for its slot; zero_grad precedes the first of them and none
\* comes between them.
C17_GradientOfCurrentStep ==
    JustStepped =>
        LET F == args.accum_freq
            first == (i - 1) - (F - 1)
        IN  /\ Len(grads) = F
            /\ \A n \in 1..F :
                /\ grads[n].epoch = epoch
                /\ grads[n].i = i - 1
                /\ grads[n].slot = n - 1
                /\ grads[n].total_loss = lossCalls[n].backward
                /\ grads[n].through = {<<"model", epoch, first + n - 1>>}
            /\ Cardinality(BackwardPositions) = F
            /\ ZeroGradPositions # {}
            /\ \A z \in ZeroGradPositions : \A b \in BackwardPositions : z < b

\* the third step of a run with F = 2 under a scaler: two scaled backward calls
C17_Witness ==
    /\ JustStepped
    /\ args.accum_freq = 2
    /\ scaler # "None"
    /\ Len(optSteps) = 3
    /\ Len(grads) = 2
    /\ grads[2].through = {<<"model", epoch, i - 1>>}


\* ----------------------------------------------------------- distillation
DistKeys == {"dist_image_features", "dist_text_features", "dist_logit_scale"}

\* the loss call c got the teacher's outputs for micro-batch mb of this epoch,
\* computed without gradient tracking, next to the student's own outputs
TeacherPassed(c, mb) ==
    /\ DistKeys \subseteq DOMAIN c.kwargs
    /\ \A k \in DistKeys :
        c.kwargs[k] = Tensor("dist_model", k, Prepared(epoch, mb), FALSE)
    /\ \A k \in model.out_keys :
        /\ k \in DOMAIN c.kwargs
        /\ \E p \in 1..Len(c.kwargs[k]) :
            c.kwargs[k][p] = Tensor("model", k, Prepared(epoch, mb), TRUE)[1]

\* C18: with distillation on, every loss evaluation receives the teacher's
\* outputs under dist_-prefixed keys together with the student's outputs, the
\* teacher run without gradient on the same batch, for every accum_freq >= 1.
C18_TeacherInEveryLoss ==
    args.distill =>
        \A n \in 1..Len(lossCalls) :
            TeacherPassed(lossCalls[n], (i - 1) - (args.accum_freq - 1) + (n - 1))

====
